---- MODULE Spec2Model ----
(***************************************************************************)
(* pycterra-cli: a command line whose sub-commands are generated from the  *)
(* public methods of picterra.APIClient (src/pycterra_cli/__init__.py).    *)
(* Strings are sequences of one-character strings, so that hyphenation,    *)
(* suffix tests, initials, UUID syntax and the help-text pattern are       *)
(* computed the way the code computes them.                                *)
(***************************************************************************)
EXTENDS Integers, Sequences, FiniteSets, TLC

\* ---------------------------------------------------------------- bounds
MaxFlags == 2
MaxVerbose == 3

\* ------------------------------------------------------- string helpers
Rep(c, n) == [i \in 1..n |-> c]

Digits == {"0","1","2","3","4","5","6","7","8","9"}
HexChars == Digits \cup {"a","b","c","d","e","f","A","B","C","D","E","F"}
LowerLetters == {"a","b","c","d","e","f","g","h","i","j","k","l","m",
                 "n","o","p","q","r","s","t","u","v","w","x","y","z"}
UpperLetters == {"A","B","C","D","E","F","G","H","I","J","K","L","M",
                 "N","O","P","Q","R","S","T","U","V","W","X","Y","Z"}
WordChars == Digits \cup LowerLetters \cup UpperLetters \cup {"_"}
SpaceChars == {" "}

\* str.replace(a, b) for one-character a and b
ReplaceChar(s, a, b) == [i \in 1..Len(s) |-> IF s[i] = a THEN b ELSE s[i]]

StartsWith(s, p) == Len(p) <= Len(s) /\ SubSeq(s, 1, Len(p)) = p
EndsWith(s, p) == Len(p) <= Len(s) /\ SubSeq(s, Len(s) - Len(p) + 1, Len(s)) = p

RECURSIVE LStrip(_, _)
LStrip(s, cs) == IF s # <<>> /\ Head(s) \in cs THEN LStrip(Tail(s), cs) ELSE s
RECURSIVE RStrip(_, _)
RStrip(s, cs) ==
  IF s # <<>> /\ s[Len(s)] \in cs THEN RStrip(SubSeq(s, 1, Len(s) - 1), cs) ELSE s
\* str.strip(chars)
Strip(s, cs) == RStrip(LStrip(s, cs), cs)

\* str.replace(sub, '') : left to right, non overlapping
RECURSIVE RemoveSub(_, _)
RemoveSub(s, sub) ==
  IF s = <<>> THEN <<>>
  ELSE IF StartsWith(s, sub) THEN RemoveSub(SubSeq(s, Len(sub) + 1, Len(s)), sub)
  ELSE <<Head(s)>> \o RemoveSub(Tail(s), sub)

\* str.replace(a, bb) for a one-character a and a string bb
RECURSIVE ExpandChar(_, _, _)
ExpandChar(s, a, bb) ==
  IF s = <<>> THEN <<>>
  ELSE (IF Head(s) = a THEN bb ELSE <<Head(s)>>) \o ExpandChar(Tail(s), a, bb)

\* index of the first occurrence of character c in s, 0 when absent
RECURSIVE IndexOf(_, _, _)
IndexOf(s, c, i) ==
  IF i > Len(s) THEN 0 ELSE IF s[i] = c THEN i ELSE IndexOf(s, c, i + 1)

\* str.split(c) for a one-character separator
RECURSIVE Split(_, _)
Split(s, c) ==
  LET k == IndexOf(s, c, 1) IN
  IF k = 0 THEN <<s>>
  ELSE <<SubSeq(s, 1, k - 1)>> \o Split(SubSeq(s, k + 1, Len(s)), c)

\* case folding of re.I on the letters the pattern names
LowerOf(c) ==
  CASE c = "O" -> "o" [] c = "N" -> "n" [] c = "E" -> "e" [] c = "F" -> "f"
    [] OTHER -> c

\* ------------------------------------------------------- python values
\* t: "none" | "bool" | "int" | "float" | "str"; a float is n / 10^d
Val(t, s, n, d) == [t |-> t, s |-> s, n |-> n, d |-> d]
PyNone == Val("none", <<>>, 0, 0)
PyBool(b) == Val("bool", <<>>, IF b THEN 1 ELSE 0, 0)
PyInt(n) == Val("int", <<>>, n, 0)
PyStr(s) == Val("str", s, 0, 0)
RECURSIVE NormFloat(_, _)
NormFloat(n, d) == IF d > 0 /\ n % 10 = 0 THEN NormFloat(n \div 10, d - 1)
                   ELSE Val("float", <<>>, n, d)
PyFloat(n, d) == NormFloat(n, d)

DigitVal(c) == CHOOSE k \in 0..9 : <<"0","1","2","3","4","5","6","7","8","9">>[k + 1] = c
RECURSIVE DecVal(_)
DecVal(s) == IF s = <<>> THEN 0 ELSE 10 * DecVal(SubSeq(s, 1, Len(s) - 1)) + DigitVal(s[Len(s)])
AllIn(s, cs) == \A i \in 1..Len(s) : s[i] \in cs

\* a conversion result: ok with a value, or the ValueError / ArgumentTypeError
Ok(v) == [ok |-> TRUE, v |-> v]
Bad == [ok |-> FALSE, v |-> PyNone]

\* int(text)
int(text) ==
  LET neg == text # <<>> /\ Head(text) = "-"
      body == IF text # <<>> /\ Head(text) \in {"-", "+"} THEN Tail(text) ELSE text
  IN IF body # <<>> /\ AllIn(body, Digits)
     THEN Ok(PyInt(IF neg THEN 0 - DecVal(body) ELSE DecVal(body)))
     ELSE Bad

\* float(text)
float(text) ==
  LET neg == text # <<>> /\ Head(text) = "-"
      body == IF text # <<>> /\ Head(text) \in {"-", "+"} THEN Tail(text) ELSE text
      parts == Split(body, ".")
      ip == parts[1]
      fp == IF Len(parts) = 2 THEN parts[2] ELSE <<>>
      mag == DecVal(ip \o fp)
  IN IF Len(parts) <= 2 /\ AllIn(ip \o fp, Digits) /\ ip \o fp # <<>>
     THEN Ok(PyFloat(IF neg THEN 0 - mag ELSE mag, Len(fp)))
     ELSE Bad

\* str(text)
str(text) == Ok(PyStr(text))

\* uuid.UUID(hex, version=4): what the constructor accepts
UUID(hex) ==
  LET h1 == RemoveSub(RemoveSub(hex, <<"u","r","n",":">>), <<"u","u","i","d",":">>)
      h2 == RemoveSub(Strip(h1, {"{", "}"}), <<"-">>)
  IN Len(h2) = 32 /\ AllIn(h2, HexChars)

uuid_type(uuid_to_test) ==
  IF UUID(uuid_to_test) THEN Ok(PyStr(uuid_to_test)) ELSE Bad

\* mutant: the command name is used as the method name unchanged
CmdArgUnchanged(cmd) == cmd
_cmd_arg_to_api_arg(cmd) == ReplaceChar(cmd, "-", "_")
api_arg_to_cmd_arg(fun) == ReplaceChar(fun, "_", "-")

\* ------------------------------------------- the client type (picterra)
\* typing annotations: inspect.Parameter.empty, a plain type, Optional[T],
\* Literal[...], or any other form
AnnEmpty == [form |-> "empty", prim |-> "", lits |-> <<>>]
AnnPlain(t) == [form |-> "plain", prim |-> t, lits |-> <<>>]
AnnOptional(t) == [form |-> "optional", prim |-> t, lits |-> <<>>]
AnnLiteral(ls) == [form |-> "literal", prim |-> "", lits |-> ls]

Param(n, a) == [name |-> n, annotation |-> a, has_default |-> FALSE, default |-> PyNone]
ParamD(n, a, d) == [name |-> n, annotation |-> a, has_default |-> TRUE, default |-> d]
Self == Param(<<"s","e","l","f">>, AnnEmpty)

\* inspect.getmembers(APIClient, predicate=inspect.isfunction): (name, fun)
\* pairs sorted by name; the methods the tests drive, with one parameter of
\* every annotation form the builder distinguishes
Members == <<
  [name |-> <<"_","r","e","t","u","r","n","_","r","e","s","u","l","t","s","_","p","a","g","e">>,
   params |-> <<Self, Param(<<"r","e","s","o","u","r","c","e","_","e","n","d","p","o","i","n","t">>, AnnPlain("str")),
                ParamD(<<"p","a","r","a","m","s">>, AnnEmpty, PyNone)>>,
   doc |-> <<>>],
  [name |-> <<"_","w","a","i","t","_","u","n","t","i","l","_","o","p","e","r","a","t","i","o","n","_","c","o","m","p","l","e","t","e","s">>,
   params |-> <<Self, Param(<<"o","p","e","r","a","t","i","o","n","_","r","e","s","p","o","n","s","e">>, AnnEmpty)>>,
   doc |-> << <<"P","o","l","l","s"," ","a","n"," ","o","p","e","r","a","t","i","o","n">> >>],
  [name |-> <<"c","r","e","a","t","e","_","d","e","t","e","c","t","o","r">>,
   params |-> <<Self,
     ParamD(<<"n","a","m","e">>, AnnOptional("str"), PyNone),
     ParamD(<<"d","e","t","e","c","t","i","o","n","_","t","y","p","e">>,
            AnnLiteral(<<PyStr(<<"c","o","u","n","t">>), PyStr(<<"s","e","g","m","e","n","t","a","t","i","o","n">>)>>),
            PyStr(<<"c","o","u","n","t">>)),
     ParamD(<<"b","a","c","k","b","o","n","e">>, AnnPlain("str"), PyStr(<<"r","e","s","n","e","t","3","4">>)),
     ParamD(<<"t","r","a","i","n","i","n","g","_","s","t","e","p","s">>, AnnPlain("int"), PyInt(500)),
     ParamD(<<"b","a","c","k","g","r","o","u","n","d","_","s","a","m","p","l","e","_","r","a","t","i","o">>, AnnPlain("float"), PyFloat(25, 2))>>,
   doc |-> << <<>>,
     <<" "," ","T","h","i","s"," ","a"," ","*","*","b","e","t","a","*","*"," ","f","u","n","c","t","i","o","n">>,
     <<" "," ","C","r","e","a","t","e","s"," ","a"," ","n","e","w"," ","d","e","t","e","c","t","o","r">>,
     <<" "," ">>,
     <<" "," ","A","r","g","s",":">>,
     <<" "," "," "," ","n","a","m","e",":"," ","N","a","m","e"," ","o","f"," ","t","h","e"," ","d","e","t","e","c","t","o","r">>,
     <<" "," "," "," ","d","e","t","e","c","t","i","o","n","_","t","y","p","e",":"," ","T","y","p","e"," ","(","o","n","e"," ","o","f"," ","'","c","o","u","n","t","'",","," ","'","o","t","h","e","r","'",")">>,
     <<" "," "," "," ","b","a","c","k","b","o","n","e",":"," ","B","a","c","k","b","o","n","e",","," ","O","n","e"," ","O","f"," ","(","'","r","e","s","n","e","t","1","8","'",","," ","'","r","e","s","n","e","t","3","4","'",")">>,
     <<" "," "," "," ","t","r","a","i","n","i","n","g","_","s","t","e","p","s",":"," ","S","t","e","p","s",":"," ","5","0","0"," ","t","o"," ","4","0","0","0","0">>,
     <<" "," "," "," ","b","a","c","k","g","r","o","u","n","d","_","s","a","m","p","l","e","_","r","a","t","i","o",":"," ","R","a","t","i","o",","," ","1","0","0","%"," ","a","t"," ","m","o","s","t">> >>],
  [name |-> <<"d","o","w","n","l","o","a","d","_","v","e","c","t","o","r","_","l","a","y","e","r","_","t","o","_","f","i","l","e">>,
   params |-> <<Self, Param(<<"v","e","c","t","o","r","_","l","a","y","e","r","_","i","d">>, AnnPlain("str")),
                Param(<<"f","i","l","e","n","a","m","e">>, AnnPlain("str"))>>,
   doc |-> << <<"D","o","w","n","l","o","a","d","s"," ","a"," ","v","e","c","t","o","r"," ","l","a","y","e","r">>,
     <<" "," ","v","e","c","t","o","r","_","l","a","y","e","r","_","i","d",":"," ","T","h","e"," ","i","d"," ","o","f"," ","t","h","e"," ","v","e","c","t","o","r"," ","l","a","y","e","r">>,
     <<" "," ","f","i","l","e","n","a","m","e",":"," ","e","x","i","s","t","i","n","g"," ","f","i","l","e"," ","t","o"," ","s","a","v","e"," ","t","h","e"," ","l","a","y","e","r"," ","i","n">> >>],
  [name |-> <<"g","e","t","_","r","a","s","t","e","r">>,
   params |-> <<Self, Param(<<"r","a","s","t","e","r","_","i","d">>, AnnPlain("str"))>>,
   doc |-> << <<"G","e","t"," ","r","a","s","t","e","r"," ","i","n","f","o","r","m","a","t","i","o","n">>,
     <<" "," ","r","a","s","t","e","r","_","i","d",":"," ","i","d"," ","o","f"," ","t","h","e"," ","r","a","s","t","e","r">> >>],
  [name |-> <<"l","i","s","t","_","d","e","t","e","c","t","o","r","s">>,
   params |-> <<Self>>,
   doc |-> << <<" "," ","e","x","p","e","r","i","m","e","n","t","a","l"," ","l","i","s","t","i","n","g">> >>],
  [name |-> <<"l","i","s","t","_","r","a","s","t","e","r","s">>,
   params |-> <<Self, ParamD(<<"f","o","l","d","e","r","_","i","d">>, AnnOptional("str"), PyNone),
                ParamD(<<"h","a","s","_","v","e","c","t","o","r","_","l","a","y","e","r","s">>, AnnOptional("bool"), PyNone)>>,
   doc |-> << <<"L","i","s","t"," ","o","f"," ","r","a","s","t","e","r","s">>,
     <<" "," ","f","o","l","d","e","r","_","i","d",":"," ","T","h","e"," ","i","d"," ","o","f"," ","t","h","e"," ","f","o","l","d","e","r"," ","t","o"," ","s","e","a","r","c","h"," ","r","a","s","t","e","r","s"," ","i","n">> >>],
  [name |-> <<"r","u","n","_","d","e","t","e","c","t","o","r">>,
   params |-> <<Self, Param(<<"d","e","t","e","c","t","o","r","_","i","d">>, AnnPlain("str")),
                Param(<<"r","a","s","t","e","r","_","i","d">>, AnnPlain("str"))>>,
   doc |-> << <<"R","u","n","s"," ","a"," ","d","e","t","e","c","t","o","r"," ","o","n"," ","a"," ","r","a","s","t","e","r">>,
     <<" "," ","d","e","t","e","c","t","o","r","_","i","d",":"," ","T","h","e"," ","i","d"," ","o","f"," ","t","h","e"," ","d","e","t","e","c","t","o","r">>,
     <<" "," ","r","a","s","t","e","r","_","i","d",":"," ","T","h","e"," ","i","d"," ","o","f"," ","t","h","e"," ","r","a","s","t","e","r">> >>],
  [name |-> <<"u","p","l","o","a","d","_","r","a","s","t","e","r">>,
   params |-> <<Self, Param(<<"f","i","l","e","n","a","m","e">>, AnnPlain("str")),
                ParamD(<<"f","o","l","d","e","r","_","i","d">>, AnnEmpty, PyNone),
                ParamD(<<"m","u","l","t","i","s","p","e","c","t","r","a","l">>, AnnPlain("bool"), PyBool(FALSE)),
                ParamD(<<"c","l","o","u","d","_","c","o","v","e","r","a","g","e">>, AnnOptional("int"), PyNone)>>,
   doc |-> << <<"U","p","l","o","a","d"," ","a"," ","r","a","s","t","e","r">>,
     <<" "," ","f","i","l","e","n","a","m","e",":"," ","L","o","c","a","l"," ","f","i","l","e">>,
     <<" "," ","f","o","l","d","e","r","_","i","d",":"," ","t","a","r","g","e","t"," ","f","o","l","d","e","r">>,
     <<" "," ","m","u","l","t","i","s","p","e","c","t","r","a","l"," ","n","o"," ","c","o","l","o","n"," ","h","e","r","e">>,
     <<" "," ","c","l","o","u","d","_","c","o","v","e","r","a","g","e",":"," ","o","n","e"," ","o","f"," ","1","0",","," ","2","0">> >>]
>>

\* ------------------------------------------------ seq / function helpers
RECURSIVE SelectIdx(_, _, _)
\* first index i >= k with P[i] TRUE in a boolean sequence, 0 when none
SelectIdx(bs, k, n) == IF k > n THEN 0 ELSE IF bs[k] THEN k ELSE SelectIdx(bs, k + 1, n)
Range(f) == {f[x] : x \in DOMAIN f}

\* typing helper, lines 34-40: the inner type of Optional[T], else False
is_optional(field) == IF field.form = "optional" THEN field.prim ELSE "False"

\* ------------------------------------------------- the help-text pattern
\* r".*one of \(?\s?((?:'?\w+'?,?\s?)+)" under re.match with re.I
RECURSIVE WordEnd(_, _)
WordEnd(s, i) == IF i <= Len(s) /\ s[i] \in WordChars THEN WordEnd(s, i + 1) ELSE i
OptChar(s, i, cs) == IF i <= Len(s) /\ s[i] \in cs THEN i + 1 ELSE i
\* one repetition '?\w+'?,?\s? starting at i: the index after it, 0 if none
ItemEnd(s, i) ==
  LET a == OptChar(s, i, {"'"})
      b == WordEnd(s, a)
  IN IF b = a THEN 0
     ELSE OptChar(s, OptChar(s, OptChar(s, b, {"'"}), {","}), SpaceChars)
RECURSIVE ItemsEnd(_, _)
ItemsEnd(s, i) == LET e == ItemEnd(s, i) IN IF e = 0 THEN i ELSE ItemsEnd(s, e)
OneOfAt(s, k) ==
  /\ k + 6 <= Len(s)
  /\ [i \in 1..7 |-> LowerOf(s[k + i - 1])] = <<"o","n","e"," ","o","f"," ">>
GroupStart(s, k) == OptChar(s, OptChar(s, k + 7, {"("}), SpaceChars)
MatchesAt(s, k) == OneOfAt(s, k) /\ ItemsEnd(s, GroupStart(s, k)) > GroupStart(s, k)
\* the greedy .* : the last position where the rest matches, 0 for no match
RECURSIVE LastMatch(_, _)
LastMatch(s, k) == IF k < 1 THEN 0 ELSE IF MatchesAt(s, k) THEN k ELSE LastMatch(s, k - 1)
\* match.group(1), <<>> standing for "no match" (a match is never empty)
MatchGroup1(s) ==
  LET k == LastMatch(s, Len(s)) IN
  IF k = 0 THEN <<>> ELSE SubSeq(s, GroupStart(s, k), ItemsEnd(s, GroupStart(s, k)) - 1)
\* [s.strip() for s in match.group(1).replace("'", "").split(",")]
DocChoices(g) ==
  LET parts == Split(RemoveSub(g, <<"'">>), ",")
  IN [i \in 1..Len(parts) |-> PyStr(Strip(parts[i], SpaceChars))]

\* ---------------------------------------- parse_args: the registry build
RECURSIVE Contains(_, _)
\* sub in s
Contains(s, sub) ==
  IF Len(s) < Len(sub) THEN FALSE
  ELSE StartsWith(s, sub) \/ Contains(Tail(s), sub)

\* mutant: private members are not skipped
IsPublicNoSkip(name) == name = name
\* line 120: names starting with "_" are skipped
IsPublic(name) == ~StartsWith(name, <<"_">>)
NotSelf(p) == p.name # <<"s","e","l","f">>
\* lines 123-125
parameters_names(fun) ==
  LET ps == SelectSeq(fun.params, NotSelf) IN [i \in 1..Len(ps) |-> ps[i].name]
ParamOf(fun, param) == CHOOSE p \in Range(fun.params) : p.name = param
\* lines 126-129
parameters_have_different_initials(fun) ==
  LET ns == parameters_names(fun) IN
  Cardinality({ns[i][1] : i \in 1..Len(ns)}) = Len(ns)
NonBlank(d) == Strip(d, SpaceChars) # <<>>
\* lines 131-135
docstring_lines(fun) ==
  LET ds == SelectSeq(fun.doc, NonBlank) IN
  [i \in 1..Len(ds) |-> ExpandChar(Strip(ds[i], SpaceChars), "%", <<"%","%">>)]
NotBetaLine(d) == ~Contains(d, <<"b","e","t","a">>) /\ ~Contains(d, <<"e","x","p","e","r","i","m","e","n","t","a","l">>)
\* lines 137-146: [has, text], has = FALSE for None
cmd_help(fun) ==
  LET ds == SelectSeq(docstring_lines(fun), NotBetaLine) IN
  IF ds = <<>> THEN [has |-> FALSE, text |-> <<>>]
  ELSE [has |-> TRUE, text |-> Strip(ds[1], SpaceChars)]

\* __name__ of the callable given as type=
TypeName(t) ==
  CASE t = "int" -> <<"i","n","t">> [] t = "float" -> <<"f","l","o","a","t">> [] t = "str" -> <<"s","t","r">>
    [] t = "uuid_type" -> <<"u","u","i","d","_","t","y","p","e">> [] t = "bool" -> <<"b","o","o","l">>
    [] OTHER -> <<>>

\* lines 171-186: the action, the type and the choices the annotation gives
AnnotationArgs(param, param_type) ==
  LET none == [action |-> "", type |-> "", choices |-> <<>>] IN
  IF param_type.form = "empty" THEN none
  ELSE IF param_type.form \in {"plain", "optional"} /\ param_type.prim = "bool"
    THEN [none EXCEPT !.action = "BooleanOptionalAction"]
  ELSE IF param_type = AnnPlain("str") /\ EndsWith(param, <<"_","i","d">>)
    THEN [none EXCEPT !.type = "uuid_type"]
  ELSE IF param_type.form = "plain" /\ param_type.prim \in {"int", "float", "str"}
    THEN [none EXCEPT !.type = param_type.prim]
  ELSE IF is_optional(param_type) # "False"
    THEN [none EXCEPT !.type = is_optional(param_type)]
  ELSE IF param_type.form = "literal"
    THEN LET cs == param_type.lits
             all(t) == \A i \in 1..Len(cs) : cs[i].t = t
         IN [none EXCEPT !.choices = cs,
                         !.type = IF all("int") THEN "int"
                                  ELSE IF all("float") THEN "float"
                                  ELSE IF all("str") THEN "str" ELSE ""]
  ELSE none

\* mutant: the initials are not required to differ
AliasUnlessReserved(fun, param) == param[1] # "v" /\ param[1] # "h"
\* lines 212-218
AliasAllowed(fun, param) ==
  /\ parameters_have_different_initials(fun)
  /\ param[1] # "v"
  /\ param[1] # "h"
name_or_flags(fun, param) ==
  << <<"-","-">> \o api_arg_to_cmd_arg(param) >>
  \o (IF AliasAllowed(fun, param) THEN << <<"-", param[1]>> >> ELSE <<>>)

\* mutant: the choices of the annotation do not stop the help being read
ReadsDocHelpAlways(split, choices) == Len(split) >= 2
\* line 192: the help text is read when the doc line has a colon and no
\* choices came from the annotation
ReadsDocHelp(split, choices) == Len(split) >= 2 /\ choices = <<>>
\* line 193: the bracketed type name is appended when a type was assigned
HelpSuffix(type) == IF type # "" THEN <<" ","[">> \o TypeName(type) \o <<"]">> ELSE <<>>

\* lines 156-234: the keyword arguments of add_argument for one parameter
subcommand_args(fun, param) ==
  LET p == ParamOf(fun, param)
      ann == AnnotationArgs(param, p.annotation)
      lines == docstring_lines(fun)
      k == SelectIdx([i \in 1..Len(lines) |-> StartsWith(lines[i], param)], 1, Len(lines))
      split == IF k = 0 THEN <<>> ELSE Split(lines[k], ":")
      reads == k # 0 /\ ReadsDocHelp(split, ann.choices)
      help == IF reads THEN Strip(split[2], SpaceChars) \o HelpSuffix(ann.type) ELSE <<>>
      g == IF reads THEN MatchGroup1(help) ELSE <<>>
      choices == IF g # <<>> THEN DocChoices(g) ELSE ann.choices
  IN [required |-> ~p.has_default,
      has_default |-> p.has_default,
      default |-> p.default,
      action |-> ann.action,
      type |-> ann.type,
      has_help |-> reads,
      help |-> help,
      choices |-> choices,
      name_or_flags |-> name_or_flags(fun, param)]

\* lines 232-234
MapEntry(args) ==
  IF args.type # "" THEN args.type
  ELSE IF args.action # "" THEN args.action ELSE "None"

\* every option string a parameter's action answers to
OptionStrings(args) ==
  Range(args.name_or_flags)
  \cup (IF args.action = "BooleanOptionalAction"
        THEN {<<"-","-","n","o","-">> \o SubSeq(args.name_or_flags[1], 3, Len(args.name_or_flags[1]))}
        ELSE {})
ReservedOptions == {<<"-","h">>, <<"-","-","h","e","l","p">>, <<"-","-","v","e","r","b","o","s","e">>, <<"-","v">>}

\* the build raises: line 211 joins choices that are not all strings, or
\* add_argument meets an option string that is already taken
BuildRaisesFor(fun) ==
  LET ns == parameters_names(fun) IN
  \/ \E i \in 1..Len(ns) :
       \E j \in 1..Len(subcommand_args(fun, ns[i]).choices) :
         subcommand_args(fun, ns[i]).choices[j].t # "str"
  \/ \E i \in 1..Len(ns) :
       \/ OptionStrings(subcommand_args(fun, ns[i])) \cap ReservedOptions # {}
       \/ \E j \in 1..(i - 1) :
            OptionStrings(subcommand_args(fun, ns[i]))
              \cap OptionStrings(subcommand_args(fun, ns[j])) # {}
IsPublicMember(m) == IsPublic(m.name)
PublicMembers == SelectSeq(Members, IsPublicMember)
BuildRaises == \E i \in 1..Len(PublicMembers) : BuildRaisesFor(PublicMembers[i])

FunOf(subcommand_name) ==
  CHOOSE m \in Range(PublicMembers) : api_arg_to_cmd_arg(m.name) = subcommand_name
SubcommandNames == {api_arg_to_cmd_arg(m.name) : m \in Range(PublicMembers)}

\* lines 117-236: the sub-parsers, one per public member
BuiltSubparsers ==
  [c \in SubcommandNames |->
     [help |-> cmd_help(FunOf(c)),
      params |-> parameters_names(FunOf(c)),
      args |-> [q \in Range(parameters_names(FunOf(c))) |-> subcommand_args(FunOf(c), q)]]]

\* lines 155, 232-234: the entries the build writes into commands_map
BuiltMap ==
  [c \in SubcommandNames |->
     [q \in Range(parameters_names(FunOf(c))) |-> MapEntry(BuiltSubparsers[c].args[q])]]
\* the global dict after a build: written keys replaced, other keys kept
MapAfterBuild(old) ==
  [c \in (DOMAIN old) \cup SubcommandNames |->
     IF c \in SubcommandNames THEN BuiltMap[c] ELSE old[c]]

\* ------------------------------------------------- command line inputs
CanonUUID == Rep("a", 8) \o <<"-">> \o Rep("b", 4) \o <<"-","4">> \o Rep("c", 3)
             \o <<"-","8">> \o Rep("d", 3) \o <<"-">> \o Rep("e", 12)
PlainHexUUID == RemoveSub(CanonUUID, <<"-">>)

\* the texts tried as the value of a parameter's flag
TextsFor(p) ==
  IF EndsWith(p.name, <<"_","i","d">>) THEN {CanonUUID, PlainHexUUID, <<"s","p","a","m">>}
  ELSE {<<"1","2">>, IF p.default.t = "str" THEN p.default.s ELSE <<"s","p","a","m">>}

Flag(opt, has_text, text) == [opt |-> opt, has_text |-> has_text, text |-> text]
LongOpt(param) == <<"-","-">> \o api_arg_to_cmd_arg(param)
ShortOpt(param) == <<"-", param[1]>>
NoOpt(param) == <<"-","-","n","o","-">> \o api_arg_to_cmd_arg(param)
\* the ways one parameter can be given on the command line
FlagChoices(p) ==
  IF p.annotation.prim = "bool"
  THEN {Flag(o, FALSE, <<>>) : o \in {LongOpt(p.name), ShortOpt(p.name), NoOpt(p.name)}}
  ELSE {Flag(o, TRUE, t) : o \in {LongOpt(p.name), ShortOpt(p.name)}, t \in TextsFor(p)}

RECURSIVE FlagSeqs(_, _, _)
\* at most b of the parameters ps[i..], each given once, in signature order
FlagSeqs(ps, i, b) ==
  IF i > Len(ps) THEN {<<>>}
  ELSE FlagSeqs(ps, i + 1, b)
       \cup (IF b > 0
             THEN {<<f>> \o r : f \in FlagChoices(ps[i]), r \in FlagSeqs(ps, i + 1, b - 1)}
             ELSE {})

Argv(kind, command, help, verbose, flags) ==
  [kind |-> kind, command |-> command, help |-> help, verbose |-> verbose, flags |-> flags]
NoArgv == Argv("none", <<>>, FALSE, 0, <<>>)
\* the argument vectors tried: [], [--version], an unknown command,
\* [cmd -h], and [cmd -v.. flags..]
Argvs ==
  {NoArgv, Argv("version", <<>>, FALSE, 0, <<>>),
   Argv("command", <<"f","r","o","b","n","i","c","a","t","e">>, FALSE, 0, <<>>)}
  \cup {Argv("command", api_arg_to_cmd_arg(m.name), TRUE, 0, <<>>) : m \in Range(PublicMembers)}
  \cup UNION {
        {Argv("command", api_arg_to_cmd_arg(m.name), FALSE, v, fs) :
            v \in 0..MaxVerbose, fs \in FlagSeqs(SelectSeq(m.params, NotSelf), 1, MaxFlags)}
        : m \in Range(PublicMembers)}

\* --------------------------------------------- argparse: parser.parse_args
\* the callable given as type= (identity when none was given)
Coerce(type, text) ==
  CASE type = "int" -> int(text)
    [] type = "float" -> float(text)
    [] type = "str" -> str(text)
    [] type = "uuid_type" -> uuid_type(text)
    [] type = "" -> Ok(PyStr(text))
    [] OTHER -> Bad

\* dest of an optional: its first long option string without the dashes
Dest(args) ==
  ReplaceChar(SubSeq(args.name_or_flags[1], 3, Len(args.name_or_flags[1])), "-", "_")

\* which action of sub-parser sp an option string selects
Resolve(sp, opt) ==
  IF opt \in {<<"-","h">>, <<"-","-","h","e","l","p">>} THEN [kind |-> "help", param |-> <<>>]
  ELSE IF opt \in {<<"-","v">>, <<"-","-","v","e","r","b","o","s","e">>} THEN [kind |-> "verbose", param |-> <<>>]
  ELSE IF \E q \in DOMAIN sp.args : opt \in OptionStrings(sp.args[q])
    THEN [kind |-> "param", param |-> CHOOSE q \in DOMAIN sp.args : opt \in OptionStrings(sp.args[q])]
  ELSE [kind |-> "unknown", param |-> <<>>]

InChoices(args, v) == args.choices = <<>> \/ v \in Range(args.choices)

\* the value one occurrence of a parameter's flag stores
FlagValue(args, f) ==
  IF args.action = "BooleanOptionalAction"
  THEN Ok(PyBool(~StartsWith(f.opt, <<"-","-","n","o","-">>)))
  ELSE LET r == Coerce(args.type, f.text) IN
       IF r.ok /\ InChoices(args, r.v) THEN r ELSE Bad

\* the value an unseen optional gets: its default, a string default being
\* passed through the type callable
DefaultValue(args) ==
  IF args.has_default /\ args.default.t = "str" /\ args.action = ""
  THEN Coerce(args.type, args.default.s)
  ELSE Ok(args.default)

ParseState(status, verbose, seen, vals, extras) ==
  [status |-> status, verbose |-> verbose, seen |-> seen, vals |-> vals, extras |-> extras]

RECURSIVE ConsumeFlags(_, _, _, _)
\* the option strings of the vector, left to right
ConsumeFlags(sp, flags, i, st) ==
  IF i > Len(flags) \/ st.status # "ok" THEN st
  ELSE LET f == flags[i]
           r == Resolve(sp, f.opt)
       IN ConsumeFlags(sp, flags, i + 1,
            CASE r.kind = "help" -> [st EXCEPT !.status = "help"]
              [] r.kind = "verbose" ->
                   [st EXCEPT !.verbose = @ + 1,
                              !.extras = @ \cup (IF f.has_text THEN {f.text} ELSE {})]
              [] r.kind = "unknown" ->
                   [st EXCEPT !.extras = @ \cup {f.opt} \cup (IF f.has_text THEN {f.text} ELSE {})]
              [] OTHER ->
                   LET v == FlagValue(sp.args[r.param], f) IN
                   IF v.ok
                   THEN [st EXCEPT !.seen = @ \cup {r.param},
                                   !.vals = [q \in DOMAIN @ |-> IF q = Dest(sp.args[r.param]) THEN v.v ELSE @[q]]]
                   ELSE [st EXCEPT !.status = "error"])

\* the namespace after the defaults of the unseen actions are filled in
FillDefaults(sp, st) ==
  IF st.status # "ok" THEN st
  ELSE IF \E q \in DOMAIN sp.args : q \notin st.seen /\ (sp.args[q].required \/ ~DefaultValue(sp.args[q]).ok)
    THEN [st EXCEPT !.status = "error"]
  ELSE IF st.extras # {} THEN [st EXCEPT !.status = "error"]
  ELSE [st EXCEPT !.vals =
          [d \in DOMAIN @ |->
             LET q == CHOOSE q \in DOMAIN sp.args : Dest(sp.args[q]) = d IN
             IF q \in st.seen THEN @[d] ELSE DefaultValue(sp.args[q]).v]]

\* parser.parse_args(args) on the built parser: status is "ok", "help",
\* "version", "error" or "nocommand"
ParseVector(subparsers, argv) ==
  LET empty == ParseState("ok", 0, {}, <<>>, {}) IN
  IF argv.kind = "none" THEN [empty EXCEPT !.status = "nocommand"]
  ELSE IF argv.kind = "version" THEN [empty EXCEPT !.status = "version"]
  ELSE IF argv.command \notin DOMAIN subparsers THEN [empty EXCEPT !.status = "error"]
  ELSE IF argv.help THEN [empty EXCEPT !.status = "help"]
  ELSE LET sp == subparsers[argv.command]
           start == ParseState("ok", argv.verbose, {},
                               [d \in {Dest(sp.args[q]) : q \in DOMAIN sp.args} |-> PyNone], {})
       IN FillDefaults(sp, ConsumeFlags(sp, argv.flags, 1, start))

\* ------------------------------------------------------------- logging
NOTSET == 0
DEBUG == 10
INFO == 20
WARNING == 30
ERROR == 40
CRITICAL == 50
\* line 23: basicConfig(level=CRITICAL) sets the root logger's level, which
\* logger inherits while its own level is NOTSET
EffectiveLevel(lvl) == IF lvl = NOTSET THEN CRITICAL ELSE lvl
\* the records of severity sev that pass logger's level, added to logs
Emit(lg, sev, lvl) == IF sev >= EffectiveLevel(lvl) THEN lg \cup {sev} ELSE lg
\* lines 62-68
LevelAfterVerbosity(verbose, lvl) ==
  IF verbose # 0
  THEN (IF verbose >= 3 THEN DEBUG
        ELSE IF verbose = 2 THEN INFO
        ELSE IF verbose = 1 THEN WARNING ELSE lvl)
  ELSE lvl

\* the build warns (lines 146, 172, 205, 207) when a member has no help, a
\* parameter no type or no help
BuildWarns ==
  \E c \in DOMAIN BuiltSubparsers :
     \/ ~BuiltSubparsers[c].help.has
     \/ \E q \in DOMAIN BuiltSubparsers[c].args :
          \/ ~BuiltSubparsers[c].args[q].has_help
          \/ ParamOf(FunOf(c), q).annotation.form = "empty"
BuildLogs(lvl) ==
  Emit(IF BuildWarns THEN Emit({}, WARNING, lvl) ELSE {}, DEBUG, lvl)

\* --------------------------------------------------- the dispatch pieces
ESC == <<"ESC">>
\* "\033[91m%s\033[00m" % err
Red(err) == ESC \o <<"[","9","1","m">> \o err \o ESC \o <<"[","0","0","m">>
\* lines 71, 73
ApiKeyVar == <<"P","I","C","T","E","R","R","A","_","A","P","I","_","K","E","Y">>
\* mutant: the exit message is the log text of line 72
MissingKeyErrorLogText == <<"M","i","s","s","i","n","g"," ","A","P","I"," ","k","e","y">>
MissingKeyError == <<"M","i","s","s","i","n","g"," ","'">> \o ApiKeyVar \o <<"'"," ","e","n","v","i","r","o","n","m","e","n","t"," ","v","a","r","i","a","b","l","e">>

Outcome(kind, code, msg) == [kind |-> kind, code |-> code, msg |-> msg]
Running == Outcome("running", 0, <<>>)
Returned == Outcome("returned", 0, <<>>)
\* sys.exit(message): the message on stderr, exit status 1
ExitWith(msg) == Outcome("exit", 1, msg)
\* argparse's parser.error: usage on stderr, exit status 2
UsageError == Outcome("exit", 2, <<"u","s","a","g","e",":"," ","p","y","c","t","e","r","r","a",":"," ","e","r","r","o","r">>)
ExitZero == Outcome("exit", 0, <<>>)

NoOptions == [command |-> <<>>, verbose |-> 0, vals |-> <<>>]
NoCall == [made |-> FALSE, method |-> <<>>, args |-> <<>>]

\* what the client method does: returns None, a list, a ResultsPage, or
\* raises
Result(kind, items) == [kind |-> kind, items |-> items]
NoResult == Result("unset", <<>>)
Results == {Result("None", <<>>), Result("list", <<>>), Result("list", <<1, 2>>),
            Result("ResultsPage", <<2, 1>>)}
\* exception classes: client.APIError, ValueError, a subclass of ValueError,
\* and classes outside both
Raisable == {"APIError", "ValueError", "UnicodeDecodeError", "KeyError"}
Raised(stage, class, msg) == [stage |-> stage, class |-> class, msg |-> msg]
NoRaise == Raised("none", "", <<>>)
ErrText == <<"b","o","o","m">>

\* mutant: only client.APIError is caught by the first clause
IsApiErrorOnly(class) == class = "APIError"
\* line 93: isinstance(err, (client.APIError, ValueError))
IsApiOrValueError(class) == class \in {"APIError", "ValueError", "UnicodeDecodeError"}

\* mutant: "if res:" in place of "if res is not None:"
IsRenderedIfTruthy(res) == res.kind # "None" /\ res.items # <<>>
\* line 86: whether the returned value is rendered
IsRendered(res) == res.kind # "None"
\* lines 88-89: list(res) for a ResultsPage
Materialize(res) ==
  IF res.kind = "ResultsPage" THEN Result("list", res.items) ELSE res

\* getattr(api_client, method_name) finds any attribute of the class
HasAttr(method_name) == \E m \in Range(Members) : m.name = method_name
MethodNamed(method_name) == CHOOSE m \in Range(Members) : m.name = method_name
\* method(**args) binds: every keyword names a parameter and every
\* parameter without a default is given
Binds(m, args) ==
  /\ \A k \in DOMAIN args : \E p \in Range(m.params) : NotSelf(p) /\ p.name = k
  /\ \A p \in Range(m.params) : NotSelf(p) /\ ~p.has_default => p.name \in DOMAIN args
\* mutant: parameters whose value is None are left out of the call
CollectArgsNotNone(opts, param_names) ==
  [q \in {x \in param_names : opts.vals[x] # PyNone} |-> opts.vals[q]]
\* line 83
CollectArgs(opts, param_names) == [q \in param_names |-> opts.vals[q]]

VARIABLES
  commands_map,  \* the module-level dict, line 58
  level,         \* logger.level
  env,           \* "PICTERRA_API_KEY" in os.environ
  pc,            \* where the current parse_args call is
  subparsers,    \* the sub-parsers of the current call's parser
  argv,          \* the argument vector of the current call
  options,       \* the parsed namespace
  events,        \* the dispatch steps taken by the current call, in order
  logs,          \* severities of the records emitted by the current call
  stdout,        \* what the current call printed
  outcome,       \* how the current call ended
  call,          \* the method call made
  result,        \* what the method returned
  raised         \* the exception the try block caught

vars == <<commands_map, level, env, pc, subparsers, argv, options, events,
          logs, stdout, outcome, call, result, raised>>

Init ==
  /\ commands_map = <<>>
  /\ level = NOTSET
  /\ env \in BOOLEAN
  /\ pc = "idle"
  /\ subparsers = <<>>
  /\ argv = NoArgv
  /\ options = NoOptions
  /\ events = <<>>
  /\ logs = {}
  /\ stdout = <<>>
  /\ outcome = Returned
  /\ call = NoCall
  /\ result = NoResult
  /\ raised = NoRaise

Between == pc = "idle"

\* os.environ changes between two calls (tests/main.py lines 66, 73)
SetEnviron ==
  /\ Between
  /\ env' = ~env
  /\ UNCHANGED <<commands_map, level, pc, subparsers, argv, options, events,
                 logs, stdout, outcome, call, result, raised>>

\* parse_args lines 100-240 up to the call of args.func: the registry and
\* parser build, then parser.parse_args; print_help when no command is given
ParseArgs(args) ==
  /\ Between
  /\ ~BuildRaises
  /\ commands_map' = MapAfterBuild(commands_map)
  /\ subparsers' = BuiltSubparsers
  /\ argv' = args
  /\ events' = <<>>
  /\ logs' = BuildLogs(level)
  /\ call' = NoCall
  /\ result' = NoResult
  /\ raised' = NoRaise
  /\ LET st == ParseVector(BuiltSubparsers, args) IN
       CASE st.status = "ok" ->
              /\ options' = [command |-> args.command, verbose |-> st.verbose, vals |-> st.vals]
              /\ pc' = "handle"
              /\ outcome' = Running
              /\ stdout' = <<>>
         [] st.status = "nocommand" ->
              /\ options' = NoOptions
              /\ pc' = "done"
              /\ outcome' = Returned
              /\ stdout' = <<[what |-> "help", value |-> NoResult]>>
         [] st.status \in {"help", "version"} ->
              /\ options' = NoOptions
              /\ pc' = "done"
              /\ outcome' = ExitZero
              /\ stdout' = <<[what |-> st.status, value |-> NoResult]>>
         [] OTHER ->
              /\ options' = NoOptions
              /\ pc' = "done"
              /\ outcome' = UsageError
              /\ stdout' = <<>>
  /\ UNCHANGED <<level, env>>

\* _handle_command lines 62-70
SetVerbosity ==
  /\ pc = "handle"
  /\ level' = LevelAfterVerbosity(options.verbose, level)
  /\ logs' = Emit(logs, DEBUG, level')
  /\ events' = Append(events, "verbosity")
  /\ pc' = "credential"
  /\ UNCHANGED <<commands_map, env, subparsers, argv, options, stdout, outcome,
                 call, result, raised>>

\* _handle_command lines 71-74
CheckCredential ==
  /\ pc = "credential"
  /\ events' = Append(events, "credential")
  /\ IF env
     THEN /\ pc' = "client"
          /\ UNCHANGED <<logs, outcome>>
     ELSE /\ logs' = Emit(logs, ERROR, level)
          /\ outcome' = ExitWith(Red(MissingKeyError))
          /\ pc' = "done"
  /\ UNCHANGED <<commands_map, level, env, subparsers, argv, options, stdout,
                 call, result, raised>>

\* _handle_command lines 75-80
ConstructClient ==
  /\ pc = "client"
  /\ options.command \in DOMAIN commands_map
  /\ logs' = Emit(logs, DEBUG, level)
  /\ events' = Append(events, "construct")
  /\ pc' = "method"
  /\ UNCHANGED <<commands_map, level, env, subparsers, argv, options, stdout,
                 outcome, call, result, raised>>

\* the except clauses, lines 93-97: what is logged and how the call ends
Caught(class, msg) ==
  IF IsApiOrValueError(class)
  THEN [sev |-> ERROR, outcome |-> ExitWith(Red(msg))]
  ELSE [sev |-> CRITICAL, outcome |-> Returned]

Catch(stage, class, msg, lg) ==
  /\ raised' = Raised(stage, class, msg)
  /\ logs' = Emit(lg, Caught(class, msg).sev, level)
  /\ outcome' = Caught(class, msg).outcome
  /\ pc' = "done"

\* _handle_command lines 81-85 with what the method does, and the handlers
InvokeMethod(raises, res) ==
  /\ pc = "method"
  /\ LET command_name == options.command
         param_names == DOMAIN commands_map[command_name]
         method_name == _cmd_arg_to_api_arg(command_name)
     IN IF ~HasAttr(method_name)
        THEN /\ Catch("lookup", "AttributeError", ErrText, logs)
             /\ UNCHANGED <<call, result, events>>
        ELSE IF ~(param_names \subseteq DOMAIN options.vals)
        THEN /\ Catch("args", "AttributeError", ErrText, logs)
             /\ UNCHANGED <<call, result, events>>
        ELSE IF ~Binds(MethodNamed(method_name), CollectArgs(options, param_names))
        THEN /\ Catch("call", "TypeError", ErrText, Emit(logs, INFO, level))
             /\ UNCHANGED <<call, result, events>>
        ELSE /\ call' = [made |-> TRUE, method |-> method_name,
                         args |-> CollectArgs(options, param_names)]
             /\ events' = Append(events, "invoke")
             /\ IF raises # ""
                THEN /\ Catch("call", raises, ErrText, Emit(logs, INFO, level))
                     /\ UNCHANGED result
                ELSE /\ result' = res
                     /\ logs' = Emit(logs, INFO, level)
                     /\ raised' = NoRaise
                     /\ IF IsRendered(res)
                        THEN pc' = "render" /\ UNCHANGED outcome
                        ELSE pc' = "done" /\ outcome' = Returned
  /\ UNCHANGED <<commands_map, level, env, subparsers, argv, options, stdout>>

\* _handle_command lines 86-90: list() of a ResultsPage and pprint, either
\* of which may raise
Render(stage, raises) ==
  /\ pc = "render"
  /\ stage = "materialize" => result.kind = "ResultsPage"
  /\ IF raises # ""
     THEN /\ Catch(stage, raises, ErrText, logs)
          /\ UNCHANGED <<stdout, events>>
     ELSE /\ stdout' = Append(stdout, [what |-> "value", value |-> Materialize(result)])
          /\ events' = Append(events, "print")
          /\ outcome' = Returned
          /\ pc' = "done"
          /\ UNCHANGED <<logs, raised>>
  /\ UNCHANGED <<commands_map, level, env, subparsers, argv, options, call, result>>

\* line 241 returns, or SystemExit reaches the caller: the call is over and
\* only the module state (commands_map, logger.level) and os.environ remain
Return ==
  /\ pc = "done"
  /\ pc' = "idle"
  /\ subparsers' = <<>>
  /\ argv' = NoArgv
  /\ options' = NoOptions
  /\ events' = <<>>
  /\ logs' = {}
  /\ stdout' = <<>>
  /\ outcome' = Returned
  /\ call' = NoCall
  /\ result' = NoResult
  /\ raised' = NoRaise
  /\ UNCHANGED <<commands_map, level, env>>

Next ==
  \/ SetEnviron
  \/ Return
  \/ \E args \in Argvs : ParseArgs(args)
  \/ SetVerbosity
  \/ CheckCredential
  \/ ConstructClient
  \/ \E raises \in Raisable \cup {""}, res \in Results :
        InvokeMethod(raises, res)
  \/ \E raises \in Raisable : Render("materialize", raises)
  \/ \E raises \in Raisable \cup {""} : Render("print", raises)

Spec == Init /\ [][Next]_vars

\* =================================================== the checked claims
Done == pc = "done"
\* the vector names a registered command
SelectsCommand ==
  argv.kind = "command" /\ \E m \in Range(Members) :
     ~StartsWith(m.name, <<"_">>) /\ ReplaceChar(m.name, "_", "-") = argv.command
\* parser.parse_args accepted the vector and _handle_command was entered
Dispatched == options.command # <<>>
IsCore(e) == e \in {"credential", "construct", "invoke"}
CoreEvents == SelectSeq(events, IsCore)
CoreOrder == <<"credential", "construct", "invoke">>
ExitsNamingKey ==
  outcome.kind = "exit" /\ outcome.code # 0 /\ Contains(outcome.msg, <<"P","I","C","T","E","R","R","A","_","A","P","I","_","K","E","Y">>)

\* C1 as stated: whenever a call that selected a registered command has
\* ended with the credential unset, it ended in a non-zero exit whose
\* message contains PICTERRA_API_KEY, whatever flags were given.
C1_AsStated == (Done /\ SelectsCommand /\ ~env) => ExitsNamingKey

\* C1 amended: whenever a call whose argument vector selected a registered
\* command and was accepted by the parser has ended with the credential
\* unset, it ended in a non-zero exit whose message contains
\* PICTERRA_API_KEY; this includes commands without parameters.
C1_Amended == (Done /\ SelectsCommand /\ Dispatched /\ ~env) => ExitsNamingKey
C1_Witness ==
  /\ Done /\ ~env /\ Dispatched
  /\ argv.command = <<"l","i","s","t","-","d","e","t","e","c","t","o","r","s">> /\ DOMAIN options.vals = {}
  /\ ExitsNamingKey

\* C2: within one call the credential check, the client construction and
\* the method invocation happen in that order and at most once each; a
\* call that has ended did all three exactly once if a command was
\* selected, parsing succeeded and the credential is present, and otherwise
\* neither constructed the client nor invoked a method.
C2_OnceInOrder ==
  /\ \E n \in 0..3 : CoreEvents = SubSeq(CoreOrder, 1, n)
  /\ Done => IF SelectsCommand /\ Dispatched /\ env
             THEN CoreEvents = CoreOrder /\ call.made
             ELSE CoreEvents \in {<<>>, <<"credential">>} /\ ~call.made
C2_Witness ==
  Done /\ env /\ CoreEvents = CoreOrder /\ call.made /\ argv.command = <<"r","u","n","-","d","e","t","e","c","t","o","r">>

\* C3: when the try block caught a failure, the call ended in a non-zero
\* exit carrying the error's message exactly if the failure is an APIError
\* or a ValueError (subclasses included); any other failure left a critical
\* log record and a normal return; the method was invoked at most once.
C3_Classified ==
  (Done /\ raised.stage # "none") =>
    /\ (outcome.kind = "exit" /\ outcome.code # 0 /\ Contains(outcome.msg, raised.msg))
         <=> raised.class \in {"APIError", "ValueError", "UnicodeDecodeError"}
    /\ raised.class \notin {"APIError", "ValueError", "UnicodeDecodeError"}
         => (CRITICAL \in logs /\ outcome.kind = "returned")
    /\ Len(SelectSeq(events, LAMBDA e : e = "invoke")) <= 1
C3_Witness ==
  /\ Done /\ raised.stage = "print" /\ raised.class = "ValueError"
  /\ outcome.kind = "exit" /\ outcome.code = 1 /\ call.made

\* C4: once parse_args has been called, commands_map has exactly one entry
\* per public method of the client type, keyed by the hyphenated method
\* name, whose keys are the method's parameter names other than self; and
\* a later build leaves a built registry as it was.
PublicMethodNames == {m.name : m \in {x \in Range(Members) : x.name[1] # "_"}}
C4_Exact ==
  (pc # "idle" \/ commands_map # <<>>) =>
    /\ DOMAIN commands_map = {ReplaceChar(n, "_", "-") : n \in PublicMethodNames}
    /\ Cardinality(DOMAIN commands_map) = Cardinality(PublicMethodNames)
    /\ \A m \in Range(Members) : m.name \in PublicMethodNames =>
         DOMAIN commands_map[ReplaceChar(m.name, "_", "-")]
           = {p.name : p \in Range(m.params)} \ {<<"s","e","l","f">>}
C4_Registry ==
  [](C4_Exact) /\ [][commands_map # <<>> => commands_map' = commands_map]_vars
\* a call that follows an earlier one (which left logger.level set) and
\* ended in an exit
C4_Witness ==
  /\ Done /\ level # NOTSET /\ argv.kind = "command" /\ argv.verbose = 0
  /\ outcome.kind = "exit" /\ Cardinality(DOMAIN commands_map) = 7

\* the parameters of the selected command, from the client type
SelectedMethod ==
  CHOOSE m \in Range(Members) : ReplaceChar(m.name, "_", "-") = argv.command
SelectedParams == {p \in Range(SelectedMethod.params) : p.name # <<"s","e","l","f">>}
\* the flags of the vector that name parameter q (long, negated or alias)
FlagsNaming(q) ==
  {f \in Range(argv.flags) :
     f.opt \in {<<"-","-">> \o ReplaceChar(q, "_", "-"),
                <<"-","-","n","o","-">> \o ReplaceChar(q, "_", "-"), <<"-", q[1]>>}}
\* 8-4-4-4-12 hexadecimal digits
IsCanonicalUUID(text) ==
  /\ Len(text) = 36
  /\ \A i \in 1..36 : IF i \in {9, 14, 19, 24} THEN text[i] = "-" ELSE text[i] \in HexChars
\* text that is a UUID in no syntax: not 32 hexadecimal digits once urn:,
\* uuid:, braces and hyphens are taken away
IsMalformedUUID(text) ==
  LET bare == SelectSeq(RemoveSub(RemoveSub(text, <<"u","r","n",":">>), <<"u","u","i","d",":">>),
                        LAMBDA c : c \notin {"{", "}", "-"})
  IN ~(Len(bare) = 32 /\ \A i \in 1..Len(bare) : bare[i] \in HexChars)

\* C5 as stated: for every parameter whose name ends in _id, whatever its
\* annotation, a canonical UUID given through its long flag reaches the
\* invoked method as the same string, and a malformed text ends the call in
\* a usage error with non-zero exit before the client is constructed or a
\* method invoked.
C5_AsStated ==
  (pc # "idle" /\ SelectsCommand) =>
    \A p \in SelectedParams :
      \A f \in {g \in Range(argv.flags) : g.opt = <<"-","-">> \o ReplaceChar(p.name, "_", "-")} :
        EndsWith(p.name, <<"_","i","d">>) =>
          /\ IsMalformedUUID(f.text) =>
               /\ pc = "done" /\ outcome.kind = "exit" /\ outcome.code # 0
               /\ ~Dispatched /\ CoreEvents = <<>> /\ ~call.made
          /\ (IsCanonicalUUID(f.text) /\ call.made) =>
               call.args[p.name] = PyStr(f.text)

\* the value a supplied flag f is expected to give parameter q of command c,
\* by the coercion kind commands_map records for it
ExpectedValue(c, q, f) ==
  LET kind == commands_map[c][q] IN
  IF kind = "BooleanOptionalAction" THEN PyBool(SubSeq(f.opt, 1, 5) # <<"-","-","n","o","-">>)
  ELSE IF kind = "None" THEN PyStr(f.text)
  ELSE Coerce(kind, f.text).v

\* C6: a dispatched method is called with exactly one keyword per non-self
\* parameter of its signature; the value is the coerced command line value
\* when the flag was given and otherwise the default of the signature, as
\* declared.
C6_CallArgs ==
  call.made =>
    /\ call.method = SelectedMethod.name
    /\ DOMAIN call.args = {p.name : p \in SelectedParams}
    /\ \A p \in SelectedParams :
         IF FlagsNaming(p.name) # {}
         THEN \A f \in FlagsNaming(p.name) :
                call.args[p.name] = ExpectedValue(argv.command, p.name, f)
         ELSE p.has_default /\ call.args[p.name] = p.default
\* create-detector with one flag given: the other four arrive as declared
C6_Witness ==
  /\ call.made /\ call.method = <<"c","r","e","a","t","e","_","d","e","t","e","c","t","o","r">>
  /\ Len(argv.flags) = 1 /\ FlagsNaming(<<"t","r","a","i","n","i","n","g","_","s","t","e","p","s">>) # {}
  /\ call.args[<<"t","r","a","i","n","i","n","g","_","s","t","e","p","s">>] = PyInt(12)
  /\ call.args[<<"n","a","m","e">>] = PyNone
  /\ call.args[<<"d","e","t","e","c","t","i","o","n","_","t","y","p","e">>] = PyStr(<<"c","o","u","n","t">>)
  /\ call.args[<<"b","a","c","k","g","r","o","u","n","d","_","s","a","m","p","l","e","_","r","a","t","i","o">>] = PyFloat(25, 2)

\* the vector with every registered alias replaced by the long flag
LongForm(a) ==
  [a EXCEPT !.flags =
     [i \in 1..Len(a.flags) |->
        LET f == a.flags[i]
            qs == {p.name : p \in {x \in SelectedParams :
                     /\ f.opt = <<"-", x.name[1]>>
                     /\ f.opt \in Range(BuiltSubparsers[a.command].args[x.name].name_or_flags)}}
        IN IF qs = {} THEN f
           ELSE [f EXCEPT !.opt = <<"-","-">> \o ReplaceChar(CHOOSE q \in qs : TRUE, "_", "-")]]]
Initials(m) == {p.name[1] : p \in {x \in Range(m.params) : x.name # <<"s","e","l","f">>}}
AliasOf(c, q) == <<"-", q[1]>>
HasAlias(c, q) == AliasOf(c, q) \in Range(BuiltSubparsers[c].args[q].name_or_flags)

\* the alias rule over every public method of the client type
AliasRule ==
  \A m \in Range(Members) : m.name[1] # "_" =>
    LET c == ReplaceChar(m.name, "_", "-")
        ps == {p.name : p \in {x \in Range(m.params) : x.name # <<"s","e","l","f">>}}
    IN /\ \A q \in ps :
            HasAlias(c, q) <=> (Cardinality(Initials(m)) = Cardinality(ps)
                                 /\ q[1] \notin {"v", "h"})
       /\ \A q \in ps : Len(BuiltSubparsers[c].args[q].name_or_flags) <= 2
       /\ \A q, r \in ps : (q # r /\ HasAlias(c, q) /\ HasAlias(c, r)) => q[1] # r[1]
       /\ \A q \in ps : HasAlias(c, q) => AliasOf(c, q) \notin {<<"-","v">>, <<"-","h">>}

\* C7: a parameter has the alias -<first letter> exactly when the first
\* letters of its command's parameters are pairwise distinct and its own is
\* neither v nor h; no two parameters of a command share an alias and none
\* is -v or -h; a call made from a vector using aliases has the arguments
\* of the call made from the same vector with the long flags.
C7_Aliases ==
  /\ AliasRule
  /\ subparsers # <<>> =>
       \A c \in DOMAIN subparsers : \A q \in DOMAIN subparsers[c].args :
         subparsers[c].args[q].name_or_flags = BuiltSubparsers[c].args[q].name_or_flags
  /\ call.made =>
       LET st == ParseVector(BuiltSubparsers, LongForm(argv))
       IN st.status = "ok" /\ call.args = st.vals
C7_Witness ==
  /\ call.made /\ call.method = <<"r","u","n","_","d","e","t","e","c","t","o","r">>
  /\ Len(argv.flags) = 2 /\ argv.flags[1].opt = <<"-","d">> /\ argv.flags[2].opt = <<"-","r">>
  /\ call.args[<<"d","e","t","e","c","t","o","r","_","i","d">>] = PyStr(argv.flags[1].text)

Printed == SelectSeq(stdout, LAMBDA x : x.what = "value")
\* C8: when the method call and the rendering raised nothing, the call that
\* has ended printed exactly one rendering if the returned value is not
\* None (an empty list included) and nothing otherwise; a ResultsPage is
\* printed as the list of its items in order; no record of severity ERROR
\* or above was logged and the call returned normally.
C8_Rendering ==
  (Done /\ call.made /\ raised.stage = "none") =>
    /\ Len(stdout) = Len(Printed)
    /\ IF result.kind = "None" THEN stdout = <<>> ELSE Len(Printed) = 1
    /\ result.kind \in {"list", "ResultsPage"} =>
         Printed[1].value = [kind |-> "list", items |-> result.items]
    /\ logs \cap {ERROR, CRITICAL} = {}
    /\ outcome.kind = "returned"
C8_Witness ==
  /\ Done /\ call.made /\ result = Result("list", <<>>)
  /\ stdout = <<[what |-> "value", value |-> Result("list", <<>>)]>>
  /\ outcome.kind = "returned"

\* the description in q's docstring line: the text after the first colon
\* of the first line that starts with the parameter's name
DocLinesOf(m) ==
  LET ds == SelectSeq(m.doc, LAMBDA d : Strip(d, {" "}) # <<>>)
  IN [i \in 1..Len(ds) |-> Strip(ds[i], {" "})]
DocLineOf(m, q) ==
  LET ls == DocLinesOf(m)
      ks == {i \in 1..Len(ls) : StartsWith(ls[i], q)}
  IN IF ks = {} THEN <<>> ELSE ls[CHOOSE i \in ks : \A j \in ks : i <= j]
HasColon(line) == \E i \in 1..Len(line) : line[i] = ":"
DocDescription(m, q) ==
  IF HasColon(DocLineOf(m, q)) THEN Strip(Split(DocLineOf(m, q), ":")[2], {" "}) ELSE <<>>
\* the choices the one-of phrase of a description names, <<>> if none
PhraseChoices(desc) ==
  IF MatchGroup1(desc) = <<>> THEN <<>> ELSE DocChoices(MatchGroup1(desc))
EndsWithBracket(help) == help # <<>> /\ help[Len(help)] = "]"
LiteralChoices(p) == IF p.annotation.form = "literal" THEN p.annotation.lits ELSE <<>>

PublicMethods == {m \in Range(Members) : m.name[1] # "_"}
\* per public method and parameter: the Literal choices of the annotation,
\* the docstring description and the choices its one-of phrase names
DocFacts ==
  [n \in {m.name : m \in PublicMethods} |->
     LET m == CHOOSE x \in PublicMethods : x.name = n IN
     [q \in {p.name : p \in {x \in Range(m.params) : x.name # <<"s","e","l","f">>}} |->
        LET p == CHOOSE x \in Range(m.params) : x.name = q IN
        [literal |-> LiteralChoices(p),
         desc |-> DocDescription(m, q),
         phrase |-> PhraseChoices(DocDescription(m, q))]]]

\* C9 as stated: when a parameter's docstring line contains a one-of
\* phrase, the registered choices are the ones of the phrase, whatever the
\* declared Literal type gives, and the help text has no bracketed type
\* suffix.
C9_AsStated ==
  subparsers # <<>> =>
    \A n \in DOMAIN DocFacts : \A q \in DOMAIN DocFacts[n] :
      LET a == subparsers[ReplaceChar(n, "_", "-")].args[q] IN
      DocFacts[n][q].phrase # <<>> =>
        /\ a.choices = DocFacts[n][q].phrase
        /\ a.has_help /\ ~EndsWithBracket(a.help)

\* C9 amended: when the declared type is a Literal, its values are the
\* registered choices and the docstring line is not read (no help text);
\* otherwise, when the docstring line contains a one-of phrase, the
\* registered choices are the ones of the phrase, and the help text is the
\* description followed by the bracketed type name whenever a coercion
\* type was assigned.
C9_Amended ==
  subparsers # <<>> =>
    \A n \in DOMAIN DocFacts : \A q \in DOMAIN DocFacts[n] :
      LET a == subparsers[ReplaceChar(n, "_", "-")].args[q]
          d == DocFacts[n][q]
      IN IF d.literal # <<>>
         THEN a.choices = d.literal /\ ~a.has_help
         ELSE d.phrase # <<>> =>
                /\ a.choices = d.phrase
                /\ a.has_help
                /\ a.help = d.desc \o (IF a.type = "" THEN <<>>
                                       ELSE <<" ","[">> \o TypeName(a.type) \o <<"]">>)
                /\ (a.type # "" <=> EndsWithBracket(a.help))
C9_Witness ==
  /\ subparsers # <<>> /\ pc = "handle" /\ argv.command = <<"c","r","e","a","t","e","-","d","e","t","e","c","t","o","r">>
  /\ subparsers[<<"c","r","e","a","t","e","-","d","e","t","e","c","t","o","r">>].args[<<"b","a","c","k","b","o","n","e">>].choices
       = <<PyStr(<<"r","e","s","n","e","t","1","8">>), PyStr(<<"r","e","s","n","e","t","3","4">>)>>
  /\ EndsWith(subparsers[<<"c","r","e","a","t","e","-","d","e","t","e","c","t","o","r">>].args[<<"b","a","c","k","b","o","n","e">>].help, <<" ","[","s","t","r","]">>)
  /\ subparsers[<<"c","r","e","a","t","e","-","d","e","t","e","c","t","o","r">>].args[<<"d","e","t","e","c","t","i","o","n","_","t","y","p","e">>].choices
       = <<PyStr(<<"c","o","u","n","t">>), PyStr(<<"s","e","g","m","e","n","t","a","t","i","o","n">>)>>
  /\ DocFacts[<<"c","r","e","a","t","e","_","d","e","t","e","c","t","o","r">>][<<"d","e","t","e","c","t","i","o","n","_","t","y","p","e">>].phrase
       = <<PyStr(<<"c","o","u","n","t">>), PyStr(<<"o","t","h","e","r">>)>>

\* the severity the verbosity count stands for
SeverityFor(verbose) ==
  IF verbose = 0 THEN CRITICAL
  ELSE IF verbose = 1 THEN WARNING
  ELSE IF verbose = 2 THEN INFO ELSE DEBUG
\* C10 as stated: from the credential check on, the severity in effect
\* during a dispatch is the one of that call's own verbosity count (0
\* silent, 1 warnings, 2 informational, 3 or more debug), whatever the
\* earlier calls in the process were.
C10_AsStated ==
  (pc \in {"credential", "client", "method", "render"}
     \/ (Done /\ Dispatched)) =>
    EffectiveLevel(level) = SeverityFor(options.verbose)
====
